---- MODULE Spec2Model ----
(***************************************************************************)
(* Model of ManagedTopNState (the managed one-sided Top-N state, "MTS")    *)
(* of src/stream/src/executor/managed_state/top_n/top_n_state.rs, over an  *)
(* abstract state table (in-memory delta over a committed store).          *)
(*                                                                         *)
(* An OrderedRow is represented by its rank in the total order of          *)
(* OrderedRow::cmp; the Row stored as a value is represented by the rank   *)
(* of the OrderedRow built from it (OrderedRow::new(row, order_types)).    *)
(* A primary key in the state table is one "byte": a number of 0..MaxKey.  *)
(*                                                                         *)
(* Further parts: PgProtocol (src/utils/pgwire/src/pg_protocol.rs), the    *)
(* rule FilterAggRule (src/frontend/src/optimizer/rule/filter_agg.rs) and  *)
(* the binding of joins (src/frontend/src/binder/relation/join.rs).        *)
(***************************************************************************)
EXTENDS Integers, FiniteSets, Sequences, TLC

\* Bounds of the model.
MaxKey == 3          \* OrderedRows are 0..MaxKey
MaxCount == 3        \* total_count is kept within 0..MaxCount
MaxTopN == 2         \* top_n_count is None or Some(0..MaxTopN)
MaxRows == 2         \* a query result has 0..MaxRows rows
MaxGroupKeys == 2    \* a LogicalAgg has 0..MaxGroupKeys group keys
MaxAggCalls == 1     \* and 0..MaxAggCalls aggregate calls
MaxConjuncts == 2    \* a predicate has 0..MaxConjuncts conjuncts
MaxRefs == 2         \* a conjunct has 0..MaxRefs input references
MaxInputCol == 1     \* the input of the LogicalAgg has columns 0..MaxInputCol
MaxUsing == 2        \* USING lists 1..MaxUsing columns
MaxPending == 2      \* process() is called with at most MaxPending messages left in buf_out

TOP_N_MIN == "MIN"
TOP_N_MAX == "MAX"
NoneCount == -1      \* top_n_count = None
NoKey == -1          \* None, as a key or a row

Keys == 0 .. MaxKey
Bytes == 0 .. MaxKey

VARIABLES
    TOP_N_TYPE,      \* const generic TOP_N_TYPE of the instance
    top_n_count,     \* Option<usize>: NoneCount or the cap K
    top_n,           \* the cache: a set of <<key, row>>, one pair per key
    total_count,     \* usize
    buffer,          \* state_table.mem_table.buffer: set of <<pk byte, op, row>>
    store,           \* the committed contents of the keyspace: set of <<pk byte, row>>
    op,              \* the last public call made on the instance,
    arg,             \* its key argument (NoKey when it has none)
    ret,             \* and its result
    row_count,       \* the total_count the owner read after its last flush
    applied,         \* the rows all insert/delete calls since construction leave
    flushed,         \* the cache of the dropped instance, when it was dropped
                     \* right after a flush and rebuilt with its total_count
    fill_on_new,     \* the last call was fill_in_cache, on a new instance
    step,            \* how far the calls so far follow the test scenario
    \* PgProtocol (src/utils/pgwire/src/pg_protocol.rs):
    state,           \* PgProtocolState: "Startup" or "Regular"
    is_terminate,    \* bool
    session,         \* Option<Arc<Session>>: "None" or "Some"
    buf_out,         \* the backend messages written into the buffer, not yet flushed
    stream,          \* the backend messages the last process() wrote to the stream
    generated,       \* the backend messages the last process() generated, in order
    msg,             \* what the last process() read from the stream
    result,          \* what the last process() returned
    unnamed_statement, \* the query string of the unnamed pg_statement
    unnamed_portal,    \* the query string of the unnamed pg_portal
    named_statements,  \* HashMap<String, pg_statement>: name -> query string
    named_portals,     \* HashMap<String, pg_portal>: name -> query string
    detail,          \* the names in the message the last process() read
    executed,        \* the query string the last process() ran for Execute
    \* the frontend (src/frontend/src):
    plan,            \* the plan FilterAggRule::apply was called on
    applied_plan,    \* what that call returned
    join,            \* the join bind_table_with_joins was called on
    bound_join       \* what that call returned

top_n_vars == <<TOP_N_TYPE, top_n_count, top_n, total_count, buffer, store, op, arg, ret,
                row_count, applied, flushed, fill_on_new, step>>
stores == <<unnamed_statement, unnamed_portal, named_statements, named_portals>>
pg == <<state, is_terminate, session, buf_out, stream, generated, msg, result,
        stores, detail, executed>>
frontend == <<plan, applied_plan, join, bound_join>>
vars == <<top_n_vars, pg, frontend>>
mts == <<TOP_N_TYPE, top_n_count, top_n, total_count, buffer, store>>

----------------------------------------------------------------------------
\* Results of a call.
RetOk == [kind |-> "Ok", key |-> NoKey, val |-> NoKey]
RetNone == [kind |-> "None", key |-> NoKey, val |-> NoKey]
RetSome(k, v) == [kind |-> "Some", key |-> k, val |-> v]
RetPanic == [kind |-> "Panic", key |-> NoKey, val |-> NoKey]
\* Err(e), and the call whose future was dropped at an await
StorageError == "StorageError"
CodecError == "CodecError"
Cancelled == "Cancelled"
RetErr(e) == [kind |-> e, key |-> NoKey, val |-> NoKey]

----------------------------------------------------------------------------
\* BTreeMap<OrderedRow, Row> as a set of pairs.
MapKeys(m) == {e[1] : e \in m}
MapHas(m, k) == k \in MapKeys(m)
MapGet(m, k) == (CHOOSE e \in m : e[1] = k)[2]
MapRemove(m, k) == {e \in m : e[1] # k}
MapInsert(m, k, v) == MapRemove(m, k) \cup {<<k, v>>}

SetMin(S) == CHOOSE x \in S : \A y \in S : x <= y
SetMax(S) == CHOOSE x \in S : \A y \in S : x >= y

----------------------------------------------------------------------------
\* The OrderedRow codec. serialize is memcomparable: the byte order is the
\* order of the rows. reverse_serialize inverts every bit of the bytes.
InvertBytes(b) == MaxKey - b
Serialize(key) == key
ReverseSerialize(key) == InvertBytes(Serialize(key))
\* ordered_row_deserializer.deserialize: the inverse of serialize
Deserialize(b) == b
\* deserialize_pk::<TOP_N_TYPE>: inverts the bytes first when TOP_N_MAX
DeserializePk(b) ==
    IF TOP_N_TYPE = TOP_N_MAX THEN Deserialize(InvertBytes(b)) ELSE Deserialize(b)

----------------------------------------------------------------------------
\* The state table: a delta (mem_table.buffer) over the committed store,
\* addressed by the encoded primary key of the partition.
TablePk(key) ==
    IF TOP_N_TYPE = TOP_N_MAX THEN ReverseSerialize(key) ELSE Serialize(key)

BufferRemove(buf, b) == {e \in buf : e[1] # b}
\* state_table.insert(pk, value): an upsert in the delta
StateTableInsert(buf, key, value) ==
    BufferRemove(buf, TablePk(key)) \cup {<<TablePk(key), "Insert", value>>}
\* state_table.delete(pk, value): a tombstone in the delta
StateTableDelete(buf, key, value) ==
    BufferRemove(buf, TablePk(key)) \cup {<<TablePk(key), "Delete", value>>}

Tombstones(buf) == {e[1] : e \in {x \in buf : x[2] = "Delete"}}
Upserts(buf) == {<<e[1], e[3]>> : e \in {x \in buf : x[2] = "Insert"}}
\* what state_table.iter presents: the delta merged over the store
MergedView(buf, st) ==
    {e \in st : e[1] \notin Tombstones(buf) /\ ~MapHas(Upserts(buf), e[1])}
        \cup Upserts(buf)
\* state_table.commit: the delta is drained into the store
Commit(buf, st) == MergedView(buf, st)

IsDirty(buf) == buf # {}

----------------------------------------------------------------------------
\* ManagedTopNState.

HasCount == top_n_count # NoneCount

\* first_key_value / last_key_value of the cache, by TOP_N_TYPE
TopKey(c) == IF TOP_N_TYPE = TOP_N_MIN THEN SetMin(MapKeys(c)) ELSE SetMax(MapKeys(c))
BottomKey(c) == IF TOP_N_TYPE = TOP_N_MIN THEN SetMax(MapKeys(c)) ELSE SetMin(MapKeys(c))

\* top_element(): None when total_count = 0, else the first/last entry (None
\* when the cache is empty)
TopElement(c, tc) ==
    IF tc = 0 \/ c = {} THEN RetNone ELSE RetSome(TopKey(c), MapGet(c, TopKey(c)))

\* Mutants of retain_top_n: one entry too many is kept; the top is popped;
\* a cache just as long as the count is cut too.
RECURSIVE RetainTopN_OneMore(_)
RetainTopN_OneMore(c) ==
    IF HasCount /\ Cardinality(c) > top_n_count + 1
    THEN RetainTopN_OneMore(MapRemove(c, BottomKey(c)))
    ELSE c
RECURSIVE RetainTopN_WrongEnd(_)
RetainTopN_WrongEnd(c) ==
    IF HasCount /\ Cardinality(c) > top_n_count
    THEN RetainTopN_WrongEnd(MapRemove(c, TopKey(c)))
    ELSE c

RECURSIVE RetainTopN_Strict(_)
RetainTopN_Strict(c) ==
    IF HasCount /\ c # {} /\ Cardinality(c) >= top_n_count
    THEN RetainTopN_Strict(MapRemove(c, BottomKey(c)))
    ELSE c

\* retain_top_n(): pop the bottom while the cache is longer than the count
RECURSIVE RetainTopN(_)
RetainTopN(c) ==
    IF HasCount /\ Cardinality(c) > top_n_count
    THEN RetainTopN(MapRemove(c, BottomKey(c)))
    ELSE c

\* The entry next_with_pk yields next: the least pk byte not yet yielded.
NextWithPk(rest) == CHOOSE e \in rest : \A f \in rest : e[1] <= f[1]

\* scan_and_merge: the loop over state_table.iter; rest is what the iterator
\* has not yielded yet.
RECURSIVE ScanLoop(_, _)
ScanLoop(c, rest) ==
    IF HasCount /\ Cardinality(c) >= top_n_count THEN c
    ELSE IF rest = {} THEN c
    ELSE LET e == NextWithPk(rest)
         IN ScanLoop(MapInsert(c, DeserializePk(e[1]), e[2]), rest \ {e})

\* Mutant of scan_and_merge: the loop stops when the cache has grown by
\* top_n_count entries since the call began.
RECURSIVE ScanLoop_Grown(_, _, _)
ScanLoop_Grown(c, rest, len) ==
    IF HasCount /\ Cardinality(c) - len >= top_n_count THEN c
    ELSE IF rest = {} THEN c
    ELSE LET e == NextWithPk(rest)
         IN ScanLoop_Grown(MapInsert(c, DeserializePk(e[1]), e[2]), rest \ {e}, len)
ScanAndMerge_Grown(c, buf, st) == ScanLoop_Grown(c, MergedView(buf, st), Cardinality(c))

\* Mutant of scan_and_merge: the committed store is scanned, not the
\* state table's merged iterator.
ScanAndMerge_StoreOnly(c, buf, st) == ScanLoop(c, st)

ScanAndMerge(c, buf, st) == ScanLoop(c, MergedView(buf, st))

\* Mutant of fill_in_cache: the loop stops one entry late.
RECURSIVE FillLoop_OneMore(_, _)
FillLoop_OneMore(c, rest) ==
    IF rest = {} THEN [cache |-> c, panic |-> FALSE]
    ELSE LET e == NextWithPk(rest)
             pk == Deserialize(e[1])
             c2 == MapInsert(c, pk, e[2])
         IN IF MapHas(c, pk) /\ MapGet(c, pk) # e[2]
            THEN [cache |-> c2, panic |-> TRUE]
            ELSE IF HasCount /\ top_n_count + 1 = Cardinality(c2)
                 THEN [cache |-> c2, panic |-> FALSE]
                 ELSE FillLoop_OneMore(c2, rest \ {e})

\* fill_in_cache: the loop over state_table.iter. The result is the cache and
\* whether debug_assert_eq!(prev_row, row) failed.
RECURSIVE FillLoop(_, _)
FillLoop(c, rest) ==
    IF rest = {} THEN [cache |-> c, panic |-> FALSE]
    ELSE LET e == NextWithPk(rest)
             pk == Deserialize(e[1])
             c2 == MapInsert(c, pk, e[2])
         IN IF MapHas(c, pk) /\ MapGet(c, pk) # e[2]
            THEN [cache |-> c2, panic |-> TRUE]
            ELSE IF HasCount /\ top_n_count = Cardinality(c2)
                 THEN [cache |-> c2, panic |-> FALSE]
                 ELSE FillLoop(c2, rest \ {e})

\* Mutant of need_to_flush: the comparisons of the two ends are swapped.
NeedToFlush_Swapped(c, tc, key) ==
    IF tc > Cardinality(c)
    THEN IF TOP_N_TYPE = TOP_N_MIN THEN key < BottomKey(c) ELSE key > BottomKey(c)
    ELSE FALSE

\* insert: need_to_flush. The caller has checked that bottom_element() is Some.
NeedToFlush(c, tc, key) ==
    IF tc > Cardinality(c)
    THEN IF TOP_N_TYPE = TOP_N_MIN THEN key > BottomKey(c) ELSE key < BottomKey(c)
    ELSE FALSE

\* Mutant of insert: the pk is read back with the forward deserializer.
InsertPk_Forward(key) ==
    Deserialize(IF TOP_N_TYPE = TOP_N_MIN THEN Serialize(key) ELSE ReverseSerialize(key))

\* insert: pk = deserialize_pk(key.serialize() / key.reverse_serialize())
InsertPk(key) ==
    DeserializePk(IF TOP_N_TYPE = TOP_N_MIN THEN Serialize(key) ELSE ReverseSerialize(key))

\* Mutant of delete: the storage is rescanned whenever rows remain.
DeleteCall_AlwaysRescan(c, buf, tc, key, value) ==
    LET c1 == MapRemove(c, key)
        buf1 == StateTableDelete(buf, key, value)
        tc1 == tc - 1
    IN [top_n |-> IF tc1 > 0
                  THEN RetainTopN(ScanAndMerge(c1, buf1, store))
                  ELSE c1,
        buffer |-> buf1,
        total_count |-> tc1,
        ret |-> IF MapHas(c, key) THEN RetSome(key, MapGet(c, key)) ELSE RetNone]

\* Mutant of delete: the delete is not handed to the state table.
DeleteCall_NoTombstone(c, buf, tc, key, value) ==
    LET c1 == MapRemove(c, key)
        tc1 == tc - 1
    IN [top_n |-> IF c1 = {} /\ tc1 > 0
                  THEN RetainTopN(ScanAndMerge(c1, buf, store))
                  ELSE c1,
        buffer |-> buf,
        total_count |-> tc1,
        ret |-> IF MapHas(c, key) THEN RetSome(key, MapGet(c, key)) ELSE RetNone]

\* delete(key, value, epoch) on cache c, delta buf, count tc (tc > 0)
DeleteCall(c, buf, tc, key, value) ==
    LET c1 == MapRemove(c, key)
        buf1 == StateTableDelete(buf, key, value)
        tc1 == tc - 1
    IN [top_n |-> IF c1 = {} /\ tc1 > 0
                  THEN RetainTopN(ScanAndMerge(c1, buf1, store))
                  ELSE c1,
        buffer |-> buf1,
        total_count |-> tc1,
        ret |-> IF MapHas(c, key) THEN RetSome(key, MapGet(c, key)) ELSE RetNone]

----------------------------------------------------------------------------
\* What the callers see of the state table.
\* The OrderedRow a pk byte of the partition stands for (inverse of TablePk).
TableKey(b) == IF TOP_N_TYPE = TOP_N_MAX THEN MaxKey - b ELSE b
Decoded(view) == {<<TableKey(e[1]), e[2]>> : e \in view}
\* the live rows: the committed store overlaid with the delta
Live == Decoded(MergedView(buffer, store))
LiveKeys == MapKeys(Live)
Committed == Decoded(store)

\* The row of an OrderedRow: the key is built from the row it orders.
RowOf(key) == key

Alive == ret.kind # "Panic"

----------------------------------------------------------------------------
\* tests::test_managed_top_n_state: the rows and the order of their
\* OrderedRows under order_types = [Descending, Ascending]. A string is the
\* sequence of its letters (a = 1, b = 2, ...).
row1 == <<<<1, 2, 3>>, 2>>     \* ("abc", 2)
row2 == <<<<1, 2, 3>>, 3>>     \* ("abc", 3)
row3 == <<<<1, 2, 4>>, 3>>     \* ("abd", 3)
row4 == <<<<1, 2>>, 4>>        \* ("ab", 4)
TestRows == {row1, row2, row3, row4}

\* s < t for strings
StrLess(s, t) ==
    \E i \in 1 .. (Len(t) + 1) :
        /\ i <= Len(s) + 1
        /\ \A j \in 1 .. (i - 1) : s[j] = t[j]
        /\ IF i > Len(s) THEN i <= Len(t)
           ELSE i <= Len(t) /\ s[i] < t[i]
\* OrderedRow::cmp under [Descending, Ascending]
OrderedRowLess(a, b) ==
    \/ StrLess(b[1], a[1])
    \/ a[1] = b[1] /\ a[2] < b[2]
\* the rank of the OrderedRow of a test row among the test rows
OrderedRowOf(row) == Cardinality({x \in TestRows : OrderedRowLess(x, row)})
r1 == OrderedRowOf(row1)
r2 == OrderedRowOf(row2)
r3 == OrderedRowOf(row3)
r4 == OrderedRowOf(row4)

\* The calls of the test, in order.
Scenario ==
    << <<"insert", r4>>, <<"insert", r3>>, <<"insert", r2>>, <<"flush", NoKey>>,
       <<"new", 3>>, <<"fill_in_cache", NoKey>>,
       <<"pop_top_element", NoKey>>, <<"pop_top_element", NoKey>>,
       <<"insert", r1>>, <<"new", 1>>, <<"fill_in_cache", NoKey>> >>
Off == NoKey
Follow(call) ==
    IF step # Off /\ step < Len(Scenario) /\ Scenario[step + 1] = call
    THEN step + 1
    ELSE Off

NoSnapshot == [valid |-> FALSE, top_n |-> {}]

----------------------------------------------------------------------------
\* A pg_statement and a pg_portal are represented by their query string; the
\* caller of process() owns the four stores and hands them to every call.
DefaultQuery == ""       \* the query string of the statement the caller starts with
NoQuery == "-"           \* nothing was run
EmptyMap == {}               \* HashMap::new(), a set of pairs as the BTreeMap above

\* the frontend has not been called
Nothing == [node |-> "-"]

\* PgProtocol::new(stream, session_mgr), and the stores of the caller
PgNew ==
    /\ state = "Startup"
    /\ is_terminate = FALSE
    /\ session = "None"
    /\ buf_out = <<>>
    /\ stream = <<>>
    /\ generated = <<>>
    /\ msg = "None"
    /\ result = "None"
    /\ unnamed_statement = DefaultQuery
    /\ unnamed_portal = DefaultQuery
    /\ named_statements = EmptyMap
    /\ named_portals = EmptyMap
    /\ detail = <<>>
    /\ executed = NoQuery
    /\ plan = Nothing
    /\ applied_plan = Nothing
    /\ join = Nothing
    /\ bound_join = Nothing

----------------------------------------------------------------------------
\* The public calls. A call that panics (an unwrap of None, a failed
\* debug assertion, an underflow of total_count) leaves the instance dead:
\* only a new instance can follow.

Init ==
    /\ TOP_N_TYPE \in {TOP_N_MIN, TOP_N_MAX}
    /\ top_n_count \in {NoneCount} \cup (0 .. MaxTopN)
    /\ top_n = {}
    /\ total_count = 0
    /\ buffer = {}
    /\ store = {}
    /\ op = "new"
    /\ arg = NoKey
    /\ ret = RetOk
    /\ row_count = 0
    /\ applied = {}
    /\ flushed = NoSnapshot
    /\ fill_on_new = FALSE
    /\ step = IF TOP_N_TYPE = TOP_N_MAX /\ top_n_count = 2 THEN 0 ELSE Off
    /\ PgNew

Panic(name, key) ==
    /\ op' = name
    /\ arg' = key
    /\ ret' = RetPanic
    /\ flushed' = NoSnapshot
    /\ fill_on_new' = FALSE
    /\ step' = Off
    /\ UNCHANGED <<mts, row_count, applied>>

\* insert(key, value, epoch), for a key that is not live
Insert(key, value) ==
    /\ UNCHANGED <<pg, frontend>>
    /\ Alive
    /\ total_count < MaxCount
    /\ key \notin LiveKeys
    /\ IF total_count > Cardinality(top_n) /\ top_n = {}
       THEN Panic("insert", key)
       ELSE /\ buffer' = StateTableInsert(buffer, InsertPk(key), value)
            /\ top_n' = IF NeedToFlush(top_n, total_count, key)
                        THEN top_n
                        ELSE MapInsert(top_n, InsertPk(key), value)
            /\ total_count' = total_count + 1
            /\ op' = "insert"
            /\ arg' = key
            /\ ret' = RetOk
            /\ applied' = MapInsert(applied, key, value)
            /\ flushed' = NoSnapshot
            /\ fill_on_new' = FALSE
            /\ step' = Follow(<<"insert", key>>)
            /\ UNCHANGED <<TOP_N_TYPE, top_n_count, store, row_count>>

\* delete(key, value, epoch), for a live key
Delete(key, value) ==
    /\ UNCHANGED <<pg, frontend>>
    /\ Alive
    /\ key \in LiveKeys
    /\ IF total_count = 0
       THEN Panic("delete", key)
       ELSE LET d == DeleteCall(top_n, buffer, total_count, key, value)
            IN /\ top_n' = d.top_n
               /\ buffer' = d.buffer
               /\ total_count' = d.total_count
               /\ op' = "delete"
               /\ arg' = key
               /\ ret' = d.ret
               /\ applied' = MapRemove(applied, key)
               /\ flushed' = NoSnapshot
               /\ fill_on_new' = FALSE
               /\ step' = Follow(<<"delete", key>>)
               /\ UNCHANGED <<TOP_N_TYPE, top_n_count, store, row_count>>

\* pop_top_element(epoch)
PopTopElement ==
    /\ UNCHANGED <<pg, frontend>>
    /\ Alive
    /\ IF total_count = 0
       THEN /\ op' = "pop_top_element"
            /\ arg' = NoKey
            /\ ret' = RetNone
            /\ flushed' = NoSnapshot
            /\ fill_on_new' = FALSE
            /\ step' = Follow(<<"pop_top_element", NoKey>>)
            /\ UNCHANGED <<mts, row_count, applied>>
       ELSE IF top_n = {}
       THEN Panic("pop_top_element", NoKey)
       ELSE LET key == TopKey(top_n)
                value == MapGet(top_n, key)
                d == DeleteCall(top_n, buffer, total_count, key, value)
            IN /\ top_n' = d.top_n
               /\ buffer' = d.buffer
               /\ total_count' = d.total_count
               /\ op' = "pop_top_element"
               /\ arg' = NoKey
               /\ ret' = RetSome(key, d.ret.val)
               /\ applied' = MapRemove(applied, key)
               /\ flushed' = NoSnapshot
               /\ fill_on_new' = FALSE
               /\ step' = Follow(<<"pop_top_element", NoKey>>)
               /\ UNCHANGED <<TOP_N_TYPE, top_n_count, store, row_count>>

\* flush(epoch), the commit succeeding; the owner then reads total_count
\* for its checkpoint
Flush ==
    /\ UNCHANGED <<pg, frontend>>
    /\ Alive
    /\ IF ~IsDirty(buffer)
       THEN UNCHANGED <<buffer, store>>
       ELSE /\ store' = Commit(buffer, store)
            /\ buffer' = {}
    /\ top_n' = RetainTopN(top_n)
    /\ op' = "flush"
    /\ arg' = NoKey
    /\ ret' = RetOk
    /\ row_count' = total_count
    /\ flushed' = NoSnapshot
    /\ fill_on_new' = FALSE
    /\ step' = Follow(<<"flush", NoKey>>)
    /\ UNCHANGED <<TOP_N_TYPE, top_n_count, total_count, applied>>

\* fill_in_cache(epoch); the caller keeps the precondition !is_dirty()
FillInCache ==
    /\ UNCHANGED <<pg, frontend>>
    /\ Alive
    /\ ~IsDirty(buffer)
    /\ LET f == FillLoop(top_n, MergedView(buffer, store))
       IN IF f.panic
          THEN Panic("fill_in_cache", NoKey)
          ELSE /\ top_n' = f.cache
               /\ op' = "fill_in_cache"
               /\ arg' = NoKey
               /\ ret' = RetOk
               /\ flushed' = IF op = "new" THEN flushed ELSE NoSnapshot
               /\ fill_on_new' = (op = "new")
               /\ step' = Follow(<<"fill_in_cache", NoKey>>)
               /\ UNCHANGED <<TOP_N_TYPE, top_n_count, total_count, buffer, store,
                              row_count, applied>>

\* scan_and_merge(epoch), called by the owner
ScanAndMergeCall ==
    /\ UNCHANGED <<pg, frontend>>
    /\ Alive
    /\ top_n' = ScanAndMerge(top_n, buffer, store)
    /\ op' = "scan_and_merge"
    /\ arg' = NoKey
    /\ ret' = RetOk
    /\ flushed' = NoSnapshot
    /\ fill_on_new' = FALSE
    /\ step' = Follow(<<"scan_and_merge", NoKey>>)
    /\ UNCHANGED <<TOP_N_TYPE, top_n_count, total_count, buffer, store,
                   row_count, applied>>

\* drop(managed_state); ManagedTopNState::new(top_n_count, count, ...) over
\* the same keyspace: the delta of the dropped instance is lost
New(count) ==
    /\ UNCHANGED <<pg, frontend>>
    /\ top_n' = {}
    /\ buffer' = {}
    /\ total_count' = count
    /\ op' = "new"
    /\ arg' = NoKey
    /\ ret' = RetOk
    /\ applied' = Committed
    /\ flushed' = IF op = "flush" /\ Alive /\ count = total_count
                  THEN [valid |-> TRUE, top_n |-> top_n]
                  ELSE NoSnapshot
    /\ fill_on_new' = FALSE
    /\ step' = Follow(<<"new", count>>)
    /\ UNCHANGED <<TOP_N_TYPE, top_n_count, store, row_count>>

\* the owner restarts from its checkpoint
Recover == New(row_count)

Call ==
    \/ \E key \in Keys : Insert(key, RowOf(key))
    \/ \E key \in Keys : Delete(key, RowOf(key))
    \/ PopTopElement
    \/ Flush
    \/ FillInCache
    \/ ScanAndMergeCall

Next ==
    \/ Call
    \/ Recover

\* the owner restarts with any count (as the test does the second time)
NextAnyCount ==
    \/ Call
    \/ \E count \in 0 .. MaxCount : New(count)

\* only insert, delete and flush, on the instance constructed first
NextWrites ==
    \/ \E key \in Keys : Insert(key, RowOf(key))
    \/ \E key \in Keys : Delete(key, RowOf(key))
    \/ Flush

\* create_managed_top_n_state::<_, TOP_N_MAX> of the tests: Some(2)
InitTest == Init /\ TOP_N_TYPE = TOP_N_MAX /\ top_n_count = 2

Spec == Init /\ [][Next]_vars
SpecWrites == Init /\ [][NextWrites]_vars
SpecTest == InitTest /\ [][NextAnyCount]_vars

----------------------------------------------------------------------------
\* Calls that do not complete: an awaited state-table call returns Err
\* (StorageError), the future is dropped at an await (Cancelled), or
\* deserialize_pk / deserialize returns Err (CodecError). The `?` operator
\* returns at once, so whatever the call has mutated so far stays.

\* scan_and_merge: its loop after n entries have been fetched and inserted;
\* ok tells whether the loop gets that far.
RECURSIVE ScanReach(_, _, _)
ScanReach(c, rest, n) ==
    IF n = 0 THEN [ok |-> TRUE, cache |-> c, rest |-> rest]
    ELSE IF (HasCount /\ Cardinality(c) >= top_n_count) \/ rest = {}
         THEN [ok |-> FALSE, cache |-> c, rest |-> rest]
         ELSE LET e == NextWithPk(rest)
              IN ScanReach(MapInsert(c, DeserializePk(e[1]), e[2]), rest \ {e}, n - 1)

\* The ways scan_and_merge returns early, with the cache it leaves: at
\* state_table.iter(epoch).await?, at the (n+1)-th next_with_pk().await?, and
\* at the deserialize_pk(..)? of the (n+1)-th entry.
ScanAborts(c, buf, st) ==
    {[cache |-> c, err |-> e] : e \in {StorageError, Cancelled}}
        \cup UNION {
            LET r == ScanReach(c, MergedView(buf, st), n)
            IN IF r.ok /\ ~(HasCount /\ Cardinality(r.cache) >= top_n_count)
               THEN {[cache |-> r.cache, err |-> e] :
                        e \in {StorageError, Cancelled}
                                \cup (IF r.rest # {} THEN {CodecError} ELSE {})}
               ELSE {}
            : n \in 0 .. MaxKey}

\* fill_in_cache: its loop after n entries have been fetched and inserted
\* without reaching the break or failing the assertion.
RECURSIVE FillReach(_, _, _)
FillReach(c, rest, n) ==
    IF n = 0 THEN [ok |-> TRUE, cache |-> c, rest |-> rest]
    ELSE IF rest = {} THEN [ok |-> FALSE, cache |-> c, rest |-> rest]
    ELSE LET e == NextWithPk(rest)
             pk == Deserialize(e[1])
             c2 == MapInsert(c, pk, e[2])
         IN IF (MapHas(c, pk) /\ MapGet(c, pk) # e[2])
                \/ (HasCount /\ top_n_count = Cardinality(c2))
            THEN [ok |-> FALSE, cache |-> c2, rest |-> rest \ {e}]
            ELSE FillReach(c2, rest \ {e}, n - 1)

\* The ways fill_in_cache returns early, with the cache it leaves.
FillAborts(c, buf, st) ==
    UNION {
        LET r == FillReach(c, MergedView(buf, st), n)
        IN IF r.ok
           THEN {[cache |-> r.cache, err |-> e] :
                    e \in {StorageError, Cancelled}
                            \cup (IF r.rest # {} THEN {CodecError} ELSE {})}
           ELSE {}
        : n \in 0 .. MaxKey}

\* Mutant of flush on a failed commit: retention is applied all the same.
FlushOnCommitError_Retains(c) == RetainTopN(c)

\* flush: the cache when state_table.commit(epoch).await? returns Err
FlushOnCommitError(c) == c

Failure(name, key, e) ==
    /\ op' = name
    /\ arg' = key
    /\ ret' = RetErr(e)
    /\ flushed' = NoSnapshot
    /\ fill_on_new' = FALSE
    /\ step' = Off

\* insert: key.serialize()? or deserialize_pk(..)? returns Err
InsertFail(key) ==
    /\ UNCHANGED <<pg, frontend>>
    /\ Alive
    /\ key \notin LiveKeys
    /\ ~(total_count > Cardinality(top_n) /\ top_n = {})
    /\ Failure("insert", key, CodecError)
    /\ UNCHANGED <<mts, row_count, applied>>

\* delete, returning early from its scan_and_merge(epoch).await?
DeleteFail(key, value) ==
    /\ UNCHANGED <<pg, frontend>>
    /\ Alive
    /\ key \in LiveKeys
    /\ total_count > 0
    /\ LET c1 == MapRemove(top_n, key)
           buf1 == StateTableDelete(buffer, key, value)
           tc1 == total_count - 1
       IN /\ c1 = {} /\ tc1 > 0
          /\ \E a \in ScanAborts(c1, buf1, store) :
                /\ top_n' = a.cache
                /\ buffer' = buf1
                /\ total_count' = tc1
                /\ Failure("delete", key, a.err)
    /\ applied' = MapRemove(applied, key)
    /\ UNCHANGED <<TOP_N_TYPE, top_n_count, store, row_count>>

\* pop_top_element, returning early from self.delete(..).await?
PopTopElementFail ==
    /\ UNCHANGED <<pg, frontend>>
    /\ Alive
    /\ total_count > 0
    /\ top_n # {}
    /\ LET key == TopKey(top_n)
           c1 == MapRemove(top_n, key)
           buf1 == StateTableDelete(buffer, key, MapGet(top_n, key))
           tc1 == total_count - 1
       IN /\ c1 = {} /\ tc1 > 0
          /\ \E a \in ScanAborts(c1, buf1, store) :
                /\ top_n' = a.cache
                /\ buffer' = buf1
                /\ total_count' = tc1
                /\ Failure("pop_top_element", key, a.err)
          /\ applied' = MapRemove(applied, key)
    /\ UNCHANGED <<TOP_N_TYPE, top_n_count, store, row_count>>

\* scan_and_merge, returning early
ScanAndMergeFail ==
    /\ UNCHANGED <<pg, frontend>>
    /\ Alive
    /\ \E a \in ScanAborts(top_n, buffer, store) :
          /\ top_n' = a.cache
          /\ Failure("scan_and_merge", NoKey, a.err)
    /\ UNCHANGED <<TOP_N_TYPE, top_n_count, total_count, buffer, store,
                   row_count, applied>>

\* fill_in_cache, returning early
FillInCacheFail ==
    /\ UNCHANGED <<pg, frontend>>
    /\ Alive
    /\ ~IsDirty(buffer)
    /\ \E a \in FillAborts(top_n, buffer, store) :
          /\ top_n' = a.cache
          /\ Failure("fill_in_cache", NoKey, a.err)
    /\ UNCHANGED <<TOP_N_TYPE, top_n_count, total_count, buffer, store,
                   row_count, applied>>

\* flush, state_table.commit(epoch).await? returning Err: the delta stays
FlushFail ==
    /\ UNCHANGED <<pg, frontend>>
    /\ Alive
    /\ IsDirty(buffer)
    /\ top_n' = FlushOnCommitError(top_n)
    /\ Failure("flush", NoKey, StorageError)
    /\ UNCHANGED <<TOP_N_TYPE, top_n_count, total_count, buffer, store,
                   row_count, applied>>

\* the call has returned Ok
Returned == ret.kind \in {"Ok", "None", "Some"}

\* The first instance under calls that may return early. An early return
\* ends the owner's batch: no call follows it on the instance, except the
\* retry of a flush whose commit failed.
NextFaults ==
    \/ (Returned /\ NextWrites)
    \/ (Returned /\ PopTopElement)
    \/ (Returned /\ ScanAndMergeCall)
    \/ (Returned /\ \E key \in Keys : InsertFail(key))
    \/ (Returned /\ \E key \in Keys : DeleteFail(key, RowOf(key)))
    \/ (Returned /\ PopTopElementFail)
    \/ (Returned /\ ScanAndMergeFail)
    \/ (Returned /\ FillInCacheFail)
    \/ (Returned /\ FlushFail)
    \/ (op = "flush" /\ ret = RetErr(StorageError) /\ Flush)

SpecFaults == Init /\ [][NextFaults]_vars

----------------------------------------------------------------------------
\* insert(key, value, epoch) for a key that is live already: the code makes
\* no difference (it does not look the key up).
InsertLive(key, value) ==
    /\ UNCHANGED <<pg, frontend>>
    /\ Alive
    /\ total_count < MaxCount
    /\ key \in LiveKeys
    /\ IF total_count > Cardinality(top_n) /\ top_n = {}
       THEN Panic("insert", key)
       ELSE /\ buffer' = StateTableInsert(buffer, InsertPk(key), value)
            /\ top_n' = IF NeedToFlush(top_n, total_count, key)
                        THEN top_n
                        ELSE MapInsert(top_n, InsertPk(key), value)
            /\ total_count' = total_count + 1
            /\ op' = "insert"
            /\ arg' = key
            /\ ret' = RetOk
            /\ applied' = MapInsert(applied, key, value)
            /\ flushed' = NoSnapshot
            /\ fill_on_new' = FALSE
            /\ step' = Off
            /\ UNCHANGED <<TOP_N_TYPE, top_n_count, store, row_count>>

\* insert, delete and flush on the first instance, by a caller that also
\* inserts live keys
NextLive ==
    \/ NextWrites
    \/ \E key \in Keys : InsertLive(key, RowOf(key))

SpecLive == Init /\ [][NextLive]_vars

----------------------------------------------------------------------------
\* retain_top_n(), called by the owner
RetainTopNCall ==
    /\ UNCHANGED <<pg, frontend>>
    /\ Alive
    /\ top_n' = RetainTopN(top_n)
    /\ op' = "retain_top_n"
    /\ arg' = NoKey
    /\ ret' = RetOk
    /\ flushed' = NoSnapshot
    /\ fill_on_new' = FALSE
    /\ step' = Off
    /\ UNCHANGED <<TOP_N_TYPE, top_n_count, total_count, buffer, store,
                   row_count, applied>>

\* insert, delete, flush and retain_top_n on the first instance
NextRetain ==
    \/ NextWrites
    \/ RetainTopNCall

SpecRetain == Init /\ [][NextRetain]_vars

----------------------------------------------------------------------------
\* PgProtocol: the state machine of one psql connection
\* (src/utils/pgwire/src/pg_protocol.rs). A backend message is represented
\* by the name of its BeMessage variant. What a handler does with the output
\* is a script: a sequence of backend messages, each a write_message_no_flush
\* of that message, and of FLUSH marks, each a call of flush().

FLUSH == "flush()"

\* the outcomes of process(): Ok(false), Ok(true), Err(e), or a panic
OkFalse == "Ok(false)"
OkTrue == "Ok(true)"
IoErr == "Err"
Aborted == "Panic"

\* the two steps of flush() that can fail
FlushSteps == {"write_all", "stream.flush"}

\* the messages FeStartupMessage::read and FeMessage::read produce
StartupMessages == {"Ssl", "Startup", "CancelQuery"}
RegularMessages == {"Query", "Terminate", "Parse", "Bind", "Execute", "Describe",
                    "Sync", "Close"}
ExtendedMessages == {"Parse", "Bind", "Execute", "Describe", "Sync", "Close"}

\* read_message: the reader is chosen by the state
ReadMessage == IF state = "Startup" THEN StartupMessages ELSE RegularMessages

\* what session.run_statement(sql) gives, with the Err of get_sql / cstr_to_str
\* as one more outcome: [kind, rows]
Responses ==
    {[kind |-> k, rows |-> 0] : k \in {"BadString", "Failed", "Empty", "Command"}}
        \cup {[kind |-> "Query", rows |-> n] : n \in 0 .. MaxRows}

RECURSIVE Repeat(_, _)
Repeat(s, n) == IF n = 0 THEN <<>> ELSE s \o Repeat(s, n - 1)

\* write_message(m): write_message_no_flush(m), then flush()
WriteMessage(m) == <<m, FLUSH>>

ProcessQueryWithResults_Described(rows, extended) ==
    WriteMessage("RowDescription")
        \o Repeat(WriteMessage("DataRow"), rows) \o <<"CommandComplete">>

\* process_query_with_results(res, extended)
ProcessQueryWithResults(rows, extended) ==
    (IF extended THEN <<>> ELSE WriteMessage("RowDescription"))
        \o Repeat(WriteMessage("DataRow"), rows) \o <<"CommandComplete">>

ProcessQueryMsg_SilentError(res, extended) ==
    CASE res.kind = "BadString" -> <<>>
      [] res.kind = "Failed" -> <<>>
      [] res.kind = "Empty" -> <<"EmptyQueryResponse">>
      [] res.kind = "Query" -> ProcessQueryWithResults(res.rows, extended)
      [] OTHER -> <<"CommandComplete">>

\* process_query_msg(query_string, extended), once the session is there
ProcessQueryMsg(res, extended) ==
    CASE res.kind = "BadString" -> <<"ErrorResponse">>
      [] res.kind = "Failed" -> <<"ErrorResponse">>
      [] res.kind = "Empty" -> <<"EmptyQueryResponse">>
      [] res.kind = "Query" -> ProcessQueryWithResults(res.rows, extended)
      [] OTHER -> <<"CommandComplete">>

\* process_startup_msg, when session_mgr.connect succeeded
ProcessStartupMsg ==
    <<"AuthenticationOk", "ParameterStatus", "ParameterStatus", "ParameterStatus",
      "ReadyForQuery">>

StateAfterStartup_Early(connected) == "Regular"

\* the state after the Startup arm: the ? returns before the assignment
StateAfterStartup(connected) == IF connected THEN "Regular" ELSE state

Flushes(script) == Cardinality({i \in 1 .. Len(script) : script[i] = FLUSH})

\* Runs a script on the buffer buf: out is what went to the stream and gen
\* what was generated so far; the fail-th flush() of the script fails at the
\* step at (0: none does). flush(): stream.write_all(&buf_out)?,
\* buf_out.clear(), stream.flush()?.
RECURSIVE Run(_, _, _, _, _, _)
Run(script, buf, out, gen, fail, at) ==
    IF script = <<>>
    THEN [buf_out |-> buf, stream |-> out, generated |-> gen, err |-> FALSE]
    ELSE IF Head(script) # FLUSH
    THEN Run(Tail(script), Append(buf, Head(script)), out,
             Append(gen, Head(script)), fail, at)
    ELSE IF fail # 1
    THEN Run(Tail(script), <<>>, out \o buf, gen,
             IF fail = 0 THEN 0 ELSE fail - 1, at)
    ELSE IF at = "write_all"
    THEN [buf_out |-> buf, stream |-> out, generated |-> gen, err |-> TRUE]
    ELSE [buf_out |-> <<>>, stream |-> out \o buf, generated |-> gen, err |-> TRUE]

ProcessResult_DoProcess(err, term) == IF err THEN IoErr ELSE OkFalse

\* process(): Err by the ? on do_process, which else gives false; then
\* Ok(self.is_terminate())
ProcessResult(err, term) == IF err THEN IoErr ELSE IF term THEN OkTrue ELSE OkFalse

\* process() is called again unless it panicked
CanProcess == result # Aborted /\ Len(buf_out) <= MaxPending

\* process() reads name and its arm runs script; st, sess and term are the
\* fields the arm assigns before its first flush()
Handle(name, script, st, sess, term) ==
    \E fail \in 0 .. Flushes(script), at \in FlushSteps :
        LET r == Run(script, buf_out, <<>>, <<>>, fail, at) IN
        /\ fail = 0 => at = "write_all"
        /\ msg' = name
        /\ buf_out' = r.buf_out
        /\ stream' = r.stream
        /\ generated' = r.generated
        /\ state' = st
        /\ session' = sess
        /\ is_terminate' = term
        /\ result' = ProcessResult(r.err, term)
        /\ UNCHANGED <<top_n_vars, frontend>>

\* an arm that returns or panics before it wrote anything
Leave(name, res) ==
    /\ msg' = name
    /\ result' = res
    /\ stream' = <<>>
    /\ generated' = <<>>
    /\ UNCHANGED <<state, session, is_terminate, buf_out>>
    /\ UNCHANGED <<top_n_vars, frontend>>

\* no store is touched and nothing is run
Plain ==
    /\ UNCHANGED stores
    /\ detail' = <<>>
    /\ executed' = NoQuery

\* read_message fails with UnexpectedEof
ProcessEof ==
    /\ CanProcess
    /\ Leave("UnexpectedEof", IoErr)
    /\ Plain

\* read_message fails with another error: no flush() on this path
ProcessReadError ==
    /\ CanProcess
    /\ Handle("ReadError", <<"ErrorResponse", "ReadyForQuery">>,
              state, session, is_terminate)
    /\ Plain

ProcessSsl ==
    /\ CanProcess
    /\ "Ssl" \in ReadMessage
    /\ Handle("Ssl", <<"EncryptionResponse", FLUSH>>, state, session, is_terminate)
    /\ Plain

ProcessStartup ==
    /\ CanProcess
    /\ "Startup" \in ReadMessage
    /\ Plain
    /\ \E connected \in BOOLEAN :
        IF connected
        THEN Handle("Startup", ProcessStartupMsg \o <<FLUSH>>,
                    StateAfterStartup(connected), "Some", is_terminate)
        ELSE /\ msg' = "Startup"
             /\ result' = IoErr
             /\ stream' = <<>>
             /\ generated' = <<>>
             /\ state' = StateAfterStartup(connected)
             /\ UNCHANGED <<session, is_terminate, buf_out>>
             /\ UNCHANGED <<top_n_vars, frontend>>

ProcessQuery ==
    /\ CanProcess
    /\ "Query" \in ReadMessage
    /\ Plain
    /\ \E res \in Responses :
        IF res.kind # "BadString" /\ session = "None"
        THEN Leave("Query", Aborted)
        ELSE Handle("Query", ProcessQueryMsg(res, FALSE) \o <<"ReadyForQuery", FLUSH>>,
                    state, session, is_terminate)

ProcessCancelQuery ==
    /\ CanProcess
    /\ "CancelQuery" \in ReadMessage
    /\ Handle("CancelQuery", <<"ErrorResponse", FLUSH>>, state, session, is_terminate)
    /\ Plain

ProcessTerminate ==
    /\ CanProcess
    /\ "Terminate" \in ReadMessage
    /\ Handle("Terminate", <<FLUSH>>, state, session, TRUE)
    /\ Plain

\* the bytes of a name that are not UTF-8: cstr_to_str(..).unwrap() panics
NotUtf8 == "\\xff"

\* Parse with statement name statement_name and query string query_string;
\* known: every type oid is one TypeOid::as_type knows
ProcessParse(statement_name, query_string, known) ==
    /\ CanProcess
    /\ "Parse" \in ReadMessage
    /\ detail' = <<statement_name, query_string>>
    /\ executed' = NoQuery
    /\ IF ~known \/ statement_name = NotUtf8
       THEN /\ Leave("Parse", Aborted)
            /\ UNCHANGED stores
       ELSE /\ Handle("Parse", WriteMessage("ParseComplete") \o <<FLUSH>>,
                      state, session, is_terminate)
            /\ IF statement_name = ""
               THEN /\ unnamed_statement' = query_string
                    /\ UNCHANGED named_statements
               ELSE /\ named_statements' =
                        MapInsert(named_statements, statement_name, query_string)
                    /\ UNCHANGED unnamed_statement
            /\ UNCHANGED <<unnamed_portal, named_portals>>

\* Bind of portal portal_name to statement statement_name;
\* statement.instance(portal_name, params) keeps the query string
ProcessBind(portal_name, statement_name) ==
    /\ CanProcess
    /\ "Bind" \in ReadMessage
    /\ detail' = <<portal_name, statement_name>>
    /\ executed' = NoQuery
    /\ IF \/ statement_name = NotUtf8
          \/ (statement_name # "" /\ statement_name \notin MapKeys(named_statements))
          \/ portal_name = NotUtf8
       THEN /\ Leave("Bind", Aborted)
            /\ UNCHANGED stores
       ELSE LET statement == IF statement_name = "" THEN unnamed_statement
                             ELSE MapGet(named_statements, statement_name) IN
            /\ Handle("Bind", WriteMessage("BindComplete") \o <<FLUSH>>,
                      state, session, is_terminate)
            /\ IF portal_name = ""
               THEN /\ unnamed_portal' = statement
                    /\ UNCHANGED named_portals
               ELSE /\ named_portals' = MapInsert(named_portals, portal_name, statement)
                    /\ UNCHANGED unnamed_portal
            /\ UNCHANGED <<unnamed_statement, named_statements>>

\* Execute of portal portal_name; nul: the bytes m.portal_name still end
\* with the 0 of the C string, which cstr_to_str strips and
\* m.portal_name.is_empty() does not
ProcessExecute(portal_name, nul) ==
    /\ CanProcess
    /\ "Execute" \in ReadMessage
    /\ detail' = <<portal_name, IF nul THEN "nul" ELSE "">>
    /\ UNCHANGED stores
    /\ LET unnamed == portal_name = "" /\ ~nul IN
       IF portal_name = NotUtf8 \/ (~unnamed /\ portal_name \notin MapKeys(named_portals))
       THEN /\ Leave("Execute", Aborted)
            /\ executed' = NoQuery
       ELSE LET portal == IF unnamed THEN unnamed_portal ELSE MapGet(named_portals, portal_name) IN
            \E res \in Responses :
                IF res.kind # "BadString" /\ session = "None"
                THEN /\ Leave("Execute", Aborted)
                     /\ executed' = NoQuery
                ELSE /\ Handle("Execute", ProcessQueryMsg(res, TRUE) \o <<FLUSH>>,
                               state, session, is_terminate)
                     /\ executed' = IF res.kind = "BadString" THEN NoQuery ELSE portal

\* Describe of statement name
ProcessDescribe(name) ==
    /\ CanProcess
    /\ "Describe" \in ReadMessage
    /\ detail' = <<name>>
    /\ executed' = NoQuery
    /\ UNCHANGED stores
    /\ IF name = NotUtf8 \/ (name # "" /\ name \notin MapKeys(named_statements))
       THEN Leave("Describe", Aborted)
       ELSE Handle("Describe",
                   WriteMessage("ParameterDescription")
                       \o WriteMessage("RowDescription") \o <<FLUSH>>,
                   state, session, is_terminate)

ProcessSync ==
    /\ CanProcess
    /\ "Sync" \in ReadMessage
    /\ Handle("Sync", WriteMessage("ReadyForQuery") \o <<FLUSH>>,
              state, session, is_terminate)
    /\ Plain

\* Close of kind kind ('S', 'P' or another byte) and name name
ProcessClose(kind, name) ==
    /\ CanProcess
    /\ "Close" \in ReadMessage
    /\ detail' = <<kind, name>>
    /\ executed' = NoQuery
    /\ IF name = NotUtf8
       THEN /\ Leave("Close", Aborted)
            /\ UNCHANGED stores
       ELSE /\ Handle("Close", WriteMessage("CloseComplete") \o <<FLUSH>>,
                      state, session, is_terminate)
            /\ named_statements' =
                IF kind = "S" THEN MapRemove(named_statements, name) ELSE named_statements
            /\ named_portals' =
                IF kind = "P" THEN MapRemove(named_portals, name) ELSE named_portals
            /\ UNCHANGED <<unnamed_statement, unnamed_portal>>

\* the names, query strings and Close kinds a client sends
Names == {"", "s", NotUtf8}
Queries == {"q1", "q2"}
CloseKinds == {"S", "P", "X"}
\* a client that uses the unnamed statement and portal only
UnnamedOnly == {"", NotUtf8}

NextPg ==
    \/ ProcessEof
    \/ ProcessReadError
    \/ ProcessSsl
    \/ ProcessStartup
    \/ ProcessQuery
    \/ ProcessCancelQuery
    \/ ProcessTerminate
    \/ \E name \in UnnamedOnly, known \in BOOLEAN : ProcessParse(name, "q1", known)
    \/ \E name \in UnnamedOnly : ProcessBind(name, "")
    \/ \E name \in UnnamedOnly, nul \in BOOLEAN : ProcessExecute(name, nul)
    \/ \E name \in UnnamedOnly : ProcessDescribe(name)
    \/ ProcessSync
    \/ \E name \in UnnamedOnly : ProcessClose("S", name)

\* the caller goes on after a call that returned Ok
Served == result # IoErr

\* the extended-query flow of a client that also names statements and
\* portals, with a caller that stops at the first Err
NextStore ==
    \/ (Served /\ ProcessStartup)
    \/ (Served /\ \E name \in Names, q \in Queries : ProcessParse(name, q, TRUE))
    \/ (Served /\ \E p \in Names, s \in Names : ProcessBind(p, s))
    \/ (Served /\ \E name \in Names, nul \in BOOLEAN : ProcessExecute(name, nul))
    \/ (Served /\ \E name \in Names : ProcessDescribe(name))
    \/ (Served /\ \E kind \in CloseKinds, name \in Names : ProcessClose(kind, name))

\* one connection; the Top-N state is left as constructed
InitPg == Init /\ TOP_N_TYPE = TOP_N_MIN /\ top_n_count = NoneCount

SpecPg == InitPg /\ [][NextPg]_vars
SpecStore == InitPg /\ [][NextStore]_vars

----------------------------------------------------------------------------
\* FilterAggRule (src/frontend/src/optimizer/rule/filter_agg.rs). A plan node
\* is a record with its kind in node; a predicate (Condition) is the sequence
\* of its conjuncts and a conjunct is the sequence of the column indices of
\* its InputRefs. The output columns of a LogicalAgg are its group keys, then
\* its aggregate calls.

SeqsUpTo(S, n) == UNION {[1 .. k -> S] : k \in 0 .. n}

Scan == [node |-> "Scan"]
None == [node |-> "None"]
LogicalFilter(input, predicate) ==
    [node |-> "Filter", predicate |-> predicate, input |-> input]
LogicalAgg(input, group_keys, agg_calls) ==
    [node |-> "Agg", group_keys |-> group_keys, agg_calls |-> agg_calls, input |-> input]

Aggs ==
    {LogicalAgg(Scan, k, a) :
        k \in SeqsUpTo(0 .. MaxInputCol, MaxGroupKeys), a \in 0 .. MaxAggCalls}
Predicates(columns) == SeqsUpTo(SeqsUpTo(0 .. columns - 1, MaxRefs), MaxConjuncts)
Plans ==
    {Scan} \cup Aggs
        \cup {LogicalFilter(Scan, p) : p \in Predicates(MaxInputCol + 1)}
        \cup UNION {{LogicalFilter(agg, p) :
                        p \in Predicates(Len(agg.group_keys) + agg.agg_calls)} :
                    agg \in Aggs}

\* expr.collect_input_refs(..).is_disjoint(columns)
IsDisjoint(expr, columns) == \A j \in 1 .. Len(expr) : expr[j] \notin columns

\* Condition::split_disjoint(columns): the conjuncts that reference columns,
\* and the others
SplitDisjoint(predicate, columns) ==
    LET Other(expr) == IsDisjoint(expr, columns)
        Referencing(expr) == ~IsDisjoint(expr, columns)
    IN <<SelectSeq(predicate, Referencing), SelectSeq(predicate, Other)>>

Substitute_Identity(expr, mapping) == expr

\* Substitute { mapping }: InputRef(i) becomes mapping[i]; mapping is 1-based here
Substitute(expr, mapping) == [j \in 1 .. Len(expr) |-> mapping[expr[j] + 1]]

\* Condition::rewrite_expr(&mut subst)
RewriteExpr(predicate, mapping) ==
    [i \in 1 .. Len(predicate) |-> Substitute(predicate[i], mapping)]

\* FilterAggRule::apply(plan)
Apply(p) ==
    IF p.node # "Filter" THEN None
    ELSE IF p.input.node # "Agg" THEN None
    ELSE LET agg == p.input
             num_group_keys == Len(agg.group_keys)
             num_agg_calls == agg.agg_calls
             agg_call_columns == num_group_keys .. num_group_keys + num_agg_calls - 1
             split == SplitDisjoint(p.predicate, agg_call_columns)
             agg_call_pred == split[1]
             pushed_predicate == split[2]
         IN IF num_group_keys = 0 THEN None
            ELSE IF pushed_predicate = <<>> THEN None
            ELSE LogicalFilter(
                    LogicalAgg(LogicalFilter(agg.input,
                                             RewriteExpr(pushed_predicate, agg.group_keys)),
                               agg.group_keys, agg.agg_calls),
                    agg_call_pred)

\* the optimizer applies the rule to a plan
ApplyFilterAgg ==
    /\ \E p \in Plans :
        /\ plan' = p
        /\ applied_plan' = Apply(p)
    /\ UNCHANGED <<join, bound_join>>
    /\ UNCHANGED <<top_n_vars, pg>>

NextRule == ApplyFilterAgg

SpecRule == InitPg /\ [][NextRule]_vars

----------------------------------------------------------------------------
\* Binder::bind_table_with_joins on one join (src/frontend/src/binder/
\* relation/join.rs). An expression is a record with its kind in node.

Columns == {"a", "b"}
Values == 0 .. 1
Rows == [Columns -> Values]
NoName == "(none)"           \* get_table_name gave None
JoinOperators == {"Inner", "LeftOuter", "RightOuter", "FullOuter"}

UsingLists == UNION {[1 .. n -> Columns] : n \in 1 .. MaxUsing}
JoinConstraints ==
    {[kind |-> "None"], [kind |-> "Natural"]}
        \cup {[kind |-> "On", boolean |-> b] : b \in BOOLEAN}
        \cup {[kind |-> "Using", columns |-> c] : c \in UsingLists}
Joins ==
    {[node |-> "JoinAst", left |-> l, right |-> r, operator |-> o, constraint |-> c] :
        l \in {"l", NoName}, r \in {"r", NoName}, o \in JoinOperators,
        c \in JoinConstraints}
      \cup {[node |-> "JoinAst", left |-> l, right |-> r, operator |-> "CrossJoin",
             constraint |-> [kind |-> "None"]] :
                l \in {"l", NoName}, r \in {"r", NoName}}

LiteralBool(b) == [node |-> "Literal", value |-> b]
CompoundIdentifier(table, column) == [node |-> "Ident", table |-> table, column |-> column]
\* Expr::BinaryOp { left, op: BinaryOperator::Eq, right }
BinaryOp(left, right) == [node |-> "Eq", left |-> left, right |-> right]
OnExpr(boolean) == [node |-> "On", boolean |-> boolean]

\* bind_expr: an identifier table.column becomes the reference to that
\* column of the left or the right input
RECURSIVE BindExpr(_, _)
BindExpr(e, left_table) ==
    CASE e.node = "Ident" ->
            [node |-> "InputRef",
             side |-> IF e.table = left_table THEN "left" ELSE "right",
             column |-> e.column]
      [] e.node = "Eq" ->
            [node |-> "Eq", left |-> BindExpr(e.left, left_table),
             right |-> BindExpr(e.right, left_table)]
      [] OTHER -> e

UsingPair(left_table, right_table, column) ==
    BinaryOp(CompoundIdentifier(left_table, column),
             CompoundIdentifier(right_table, column))

\* the loop of JoinConstraint::Using over the columns after the first
RECURSIVE UsingExpr(_, _, _, _)
UsingExpr(binary_expr, columns, left_table, right_table) ==
    IF columns = <<>> THEN binary_expr
    ELSE UsingExpr(BinaryOp(binary_expr,
                            UsingPair(left_table, right_table, Head(columns))),
                   Tail(columns), left_table, right_table)

BindErr(e) == [node |-> "Err", error |-> e]
BindPanic == [node |-> "Panic"]

\* bind_join_constraint(constraint, left_table, right_table)
BindJoinConstraint(constraint, left_table, right_table) ==
    CASE constraint.kind = "None" -> LiteralBool(TRUE)
      [] constraint.kind = "Natural" -> BindErr("NotImplemented")
      [] constraint.kind = "On" ->
            IF constraint.boolean THEN OnExpr(TRUE) ELSE BindErr("InternalError")
      [] OTHER ->
            IF left_table = NoName \/ right_table = NoName THEN BindPanic
            ELSE BindExpr(UsingExpr(UsingPair(left_table, right_table,
                                              Head(constraint.columns)),
                                    Tail(constraint.columns), left_table, right_table),
                          left_table)

\* bind_table_with_joins on a table with one join
BindTableWithJoins(j) ==
    LET constraint == IF j.operator = "CrossJoin" THEN [kind |-> "None"] ELSE j.constraint
        join_type == IF j.operator = "CrossJoin" THEN "Inner" ELSE j.operator
        cond == BindJoinConstraint(constraint, j.left, j.right)
    IN IF cond.node \in {"Err", "Panic"} THEN cond
       ELSE [node |-> "BoundJoin", join_type |-> join_type, cond |-> cond]

BindJoin ==
    /\ \E j \in Joins :
        /\ join' = j
        /\ bound_join' = BindTableWithJoins(j)
    /\ UNCHANGED <<plan, applied_plan>>
    /\ UNCHANGED <<top_n_vars, pg>>

NextJoin == BindJoin

SpecJoin == InitPg /\ [][NextJoin]_vars

----------------------------------------------------------------------------
\* Vocabulary of the properties.

\* a is nearer to the end TOP_N_TYPE selects than b
Better(a, b) == IF TOP_N_TYPE = TOP_N_MIN THEN a < b ELSE a > b
\* the key of S at the selected end
Extreme(S) == CHOOSE a \in S : \A b \in S \ {a} : Better(a, b)
CacheKeys == MapKeys(top_n)
CacheLen == Cardinality(top_n)

\* C1: after every public call that returns, every cached key is live and no
\* live key outside the cache is nearer to the selected end than a cached key
\* (I3: the cache is the |cache| end-most keys of the live rows).
C1_CacheIsEndOfLive ==
    Alive =>
        \A k \in CacheKeys :
            /\ k \in LiveKeys
            /\ \A l \in LiveKeys \ CacheKeys : Better(k, l)

\* C2: after every insert, delete or flush on the instance constructed
\* first, |cache| <= total_count, and total_count > 0 implies a non-empty
\* cache, whatever the cap top_n_count.
C2_CacheNonEmpty ==
    Alive =>
        /\ CacheLen <= total_count
        /\ total_count > 0 => top_n # {}

\* C3 as stated: when a cap is set, the cache holds at most that many
\* entries after any public call returns.
C3_CapAfterEveryCall ==
    (Alive /\ HasCount) => CacheLen <= top_n_count

\* C3, amended: when a cap is set, the cache holds at most that many entries
\* after every flush that returns (insert does not enforce the cap).
C3_CapAfterFlush ==
    (Alive /\ HasCount /\ op = "flush") => CacheLen <= top_n_count

\* C3 witness: a flush has returned with the cache cut to the cap while
\* more rows than the cap are live.
C3_Witness ==
    /\ Alive /\ op = "flush" /\ HasCount /\ top_n_count > 0
    /\ CacheLen = top_n_count
    /\ total_count > top_n_count
    /\ Cardinality(LiveKeys) > top_n_count

\* C4 as stated: pop_top_element with total_count = 0 returns None and
\* changes nothing; with total_count > 0 (and a cache to pop from) it returns
\* the live row at the selected end, after which that key is neither cached
\* nor live, a tombstone for it is in the delta, and total_count is one less.
C4_PopReturnsExtremeOfLive ==
    [][(Alive /\ op' = "pop_top_element"
              /\ (total_count = 0 \/ (top_n # {} /\ LiveKeys # {})))
        => IF total_count = 0
           THEN /\ ret' = RetNone
                /\ top_n' = top_n /\ total_count' = total_count /\ buffer' = buffer
           ELSE /\ ret' = RetSome(Extreme(LiveKeys), MapGet(Live, Extreme(LiveKeys)))
                /\ ret'.key \notin MapKeys(top_n')
                /\ ret'.key \notin MapKeys(Decoded(MergedView(buffer', store')))
                /\ TablePk(ret'.key) \in Tombstones(buffer')
                /\ total_count' = total_count - 1]_vars

\* Worse than the bottom of the cache: the case in which insert skips the cache.
FlushOnly(key) ==
    /\ total_count > CacheLen
    /\ Better(BottomKey(top_n), key)

\* C5: an insert that returns has recorded the row in the delta and raised
\* total_count by one; it has left the cache as it was when, at entry,
\* total_count > |cache| and the key was strictly worse than the bottom of the
\* cache, and has added the key (evicting nothing) otherwise.
C5_Insert ==
    [][(op' = "insert" /\ ret' = RetOk)
        => /\ <<TablePk(arg'), "Insert", RowOf(arg')>> \in buffer'
           /\ MapHas(Decoded(MergedView(buffer', store')), arg')
           /\ total_count' = total_count + 1
           /\ IF FlushOnly(arg') THEN top_n' = top_n
              ELSE /\ <<arg', RowOf(arg')>> \in top_n'
                   /\ MapKeys(top_n') = CacheKeys \cup {arg'}
                   /\ \A e \in top_n : e[1] # arg' => e \in top_n']_vars

\* C5 witness: an insert has returned without caching its key, and another
\* could leave the cache longer than the cap.
C5_Witness ==
    /\ op = "insert" /\ ret = RetOk
    /\ arg \in LiveKeys \ CacheKeys
    /\ top_n # {}
    /\ HasCount /\ CacheLen >= top_n_count

\* The n entries of cache c nearest to the selected end.
EndMost(c, n) ==
    {e \in c : Cardinality({f \in c : Better(f[1], e[1])}) < n}

\* C6: a flush that returns leaves the delta empty and the committed store
\* equal to the merged view it started from (the store itself when it was
\* clean), total_count as it was, and of the cache the top_n_count entries
\* nearest to the selected end (all of it when there is no cap).
C6_Flush ==
    [][(Alive /\ op' = "flush" /\ ret' = RetOk)
        => /\ ~IsDirty(buffer')
           /\ store' = MergedView(buffer, store)
           /\ Decoded(store') = Live
           /\ ~IsDirty(buffer) => store' = store
           /\ total_count' = total_count
           /\ top_n' = IF HasCount THEN EndMost(top_n, top_n_count) ELSE top_n
           /\ HasCount => Cardinality(top_n') <= top_n_count]_vars

\* C6 witness: a flush has committed rows and cut the cache to the cap.
C6_Witness ==
    /\ op = "flush" /\ ret = RetOk
    /\ HasCount /\ top_n_count > 0
    /\ CacheLen = top_n_count
    /\ Cardinality(store) > top_n_count
    /\ row_count = Cardinality(store)

\* C7: the committed store overlaid with the delta holds exactly the rows
\* that the insert and delete calls made since construction leave of the
\* rows committed at construction.
C7_TableIsAppliedCalls == Live = applied

\* C7 witness: a live row that was never cached has been deleted, and a
\* row inserted past the cache is live.
C7_Witness ==
    /\ op = "delete" /\ ret = RetNone
    /\ TablePk(arg) \in Tombstones(buffer)
    /\ LiveKeys \ CacheKeys # {}
    /\ Upserts(buffer) # {}

\* C8 as stated: when an instance is dropped right after a flush that left
\* it a cache to show a top element from, and a new one is constructed with
\* its total_count, the new instance has, after fill_in_cache, the
\* top_element the dropped one had after the flush (and the same cache when
\* a cap is set).
C8_RecoveredTopElement ==
    (Alive /\ op = "fill_in_cache" /\ fill_on_new /\ flushed.valid /\ flushed.top_n # {})
        => /\ TopElement(top_n, total_count) = TopElement(flushed.top_n, total_count)
           /\ HasCount => top_n = flushed.top_n

\* C9 as stated: a new instance sees the committed image only, so after its
\* fill_in_cache its top_element is the committed row at the selected end.
C9_TopElementOfCommittedImage ==
    (Alive /\ op = "fill_in_cache" /\ fill_on_new /\ total_count > 0 /\ store # {})
        => /\ Live = Committed
           /\ TopElement(top_n, total_count)
                = RetSome(Extreme(MapKeys(Committed)),
                          MapGet(Committed, Extreme(MapKeys(Committed))))

C11_AwaitFirstThenMutate ==
    [][(op' \in {"delete", "pop_top_element", "fill_in_cache", "scan_and_merge"}
            /\ ret'.kind \in {StorageError, Cancelled})
        => /\ top_n' = top_n
           /\ total_count' = total_count]_vars

\* C12: a flush whose commit fails returns the StorageError and leaves the
\* delta (still dirty), the store, the cache (no retention) and total_count
\* as they were; the flush retried right after it commits that delta and
\* leaves the delta empty.
C12_FailedFlushThenRetry ==
    [][/\ (op' = "flush" /\ ret'.kind # "Ok")
            => /\ ret' = RetErr(StorageError)
               /\ IsDirty(buffer')
               /\ buffer' = buffer /\ store' = store
               /\ top_n' = top_n /\ total_count' = total_count
       /\ (op = "flush" /\ ret = RetErr(StorageError) /\ op' = "flush" /\ ret' = RetOk)
            => /\ store' = Commit(buffer, store)
               /\ ~IsDirty(buffer')
               /\ total_count' = total_count]_vars

\* C12 witness: a flush has returned the StorageError with the delta still
\* dirty over committed rows and the cache still longer than the cap.
C12_Witness ==
    /\ op = "flush" /\ ret = RetErr(StorageError)
    /\ IsDirty(buffer) /\ store # {}
    /\ HasCount /\ CacheLen > top_n_count
    /\ total_count > row_count

\* C13 as stated: a call that fails with a codec error leaves the cache, the
\* delta and total_count as they were before the call.
C13_CodecErrorChangesNothing ==
    [][(ret' = RetErr(CodecError))
        => /\ top_n' = top_n
           /\ buffer' = buffer
           /\ total_count' = total_count]_vars

\* C14 as stated: an insert of a key that is live already, with the same
\* value, leaves the cache, the merged view of the state table and
\* total_count as they were after the first insert.
C14_DuplicateInsertIdempotent ==
    [][(op' = "insert" /\ ret' = RetOk /\ <<arg', RowOf(arg')>> \in Live)
        => /\ top_n' = top_n
           /\ MergedView(buffer', store') = MergedView(buffer, store)
           /\ total_count' = total_count]_vars

\* C15: on a clean table, whatever the cache and the cap, scan_and_merge
\* applied to the cache a scan_and_merge leaves changes nothing: two scans in
\* succession leave the cache of one.
C15_RescanIdempotent ==
    (Alive /\ ~IsDirty(buffer))
        => ScanAndMerge(ScanAndMerge(top_n, buffer, store), buffer, store)
             = ScanAndMerge(top_n, buffer, store)

\* C15 witness: on a clean table holding more rows than the cap, a
\* scan_and_merge would add to the cache and stop at the cap.
C15_Witness ==
    /\ Alive /\ ~IsDirty(buffer)
    /\ HasCount /\ top_n_count > 0 /\ CacheLen < top_n_count
    /\ Cardinality(store) > top_n_count
    /\ Cardinality(ScanAndMerge(top_n, buffer, store)) = top_n_count
    /\ ScanAndMerge(top_n, buffer, store) # top_n

\* C16 as stated: what fill_in_cache or scan_and_merge puts into an empty
\* cache are rows as they were inserted (each decoded key is the key the row
\* was written under) and they are the first of the scan in the order of the
\* selected end: no live key outside the cache is nearer to that end.
C16_OneDirectionConvention ==
    [][(op' \in {"fill_in_cache", "scan_and_merge"} /\ ret' = RetOk /\ top_n = {})
        => /\ \A e \in top_n' : e \in Live
           /\ \A e \in top_n' : \A l \in LiveKeys \ MapKeys(top_n') : Better(e[1], l)]_vars

\* C17: a delete that returns has removed the key from the cache, put a
\* tombstone for it into the delta and lowered total_count by one; it returns
\* the row the cache held for the key, or None when it held none. When the
\* cache is thereby empty while rows remain (total_count > 0), the cache is
\* refilled by a scan and cut to the cap: it holds the top_n_count live rows
\* nearest to the selected end (all of them without a cap). Otherwise the
\* cache is the old cache without the key, whatever the storage holds.
C17_Delete ==
    [][(op' = "delete" /\ ret'.kind \in {"Some", "None"})
        => LET live == Decoded(MergedView(buffer', store'))
           IN /\ ~MapHas(top_n', arg')
              /\ TablePk(arg') \in Tombstones(buffer')
              /\ ~MapHas(live, arg')
              /\ total_count' = total_count - 1
              /\ ret' = IF MapHas(top_n, arg')
                        THEN RetSome(arg', MapGet(top_n, arg'))
                        ELSE RetNone
              /\ IF MapRemove(top_n, arg') = {} /\ total_count' > 0
                 THEN top_n' = IF HasCount THEN EndMost(live, top_n_count) ELSE live
                 ELSE top_n' = MapRemove(top_n, arg')]_vars

\* C17 witness: a delete has returned the cached row and left the cache
\* shorter than the cap, not refilled, while rows outside the cache are live.
C17_Witness ==
    /\ op = "delete" /\ ret.kind = "Some"
    /\ top_n # {}
    /\ HasCount /\ CacheLen < top_n_count
    /\ LiveKeys \ CacheKeys # {}
    /\ CacheKeys \subseteq LiveKeys

\* C18: retain_top_n leaves the committed store, the delta (so is_dirty)
\* and total_count as they were, and removes entries of the cache from the
\* bottom only: the cache it leaves is the min(top_n_count, |cache|) entries
\* of the old cache nearest to the selected end, all of it without a cap.
C18_RetentionIsMemoryOnly ==
    [][(op' = "retain_top_n")
        => /\ store' = store
           /\ buffer' = buffer
           /\ IsDirty(buffer') = IsDirty(buffer)
           /\ total_count' = total_count
           /\ top_n' \subseteq top_n
           /\ \A e \in top_n' : \A f \in top_n \ top_n' : Better(e[1], f[1])
           /\ Cardinality(top_n') = IF HasCount /\ top_n_count < CacheLen
                                    THEN top_n_count
                                    ELSE CacheLen]_vars

\* C18 witness: retain_top_n has cut the cache to the cap on a dirty table
\* whose rows outnumber the cap.
C18_Witness ==
    /\ op = "retain_top_n"
    /\ IsDirty(buffer)
    /\ HasCount /\ top_n_count > 0 /\ CacheLen = top_n_count
    /\ total_count > top_n_count
    /\ LiveKeys \ CacheKeys # {}

\* C19 as stated: fill_in_cache on a clean table and an empty cache leaves
\* in the cache exactly the top_n_count committed rows nearest to the
\* selected end (all that are committed when they are fewer, or when there
\* is no cap), for every cap, 0 included.
C19_FillStopsAtCap ==
    [][(op' = "fill_in_cache" /\ ret' = RetOk /\ top_n = {} /\ ~IsDirty(buffer))
        => top_n' = IF HasCount THEN EndMost(Committed, top_n_count) ELSE Committed]_vars

\* C20 as stated: on a clean table, from the same cache no longer than the
\* cap, fill_in_cache and scan_and_merge leave the same cache.
C20_ScanIsFill ==
    (Alive /\ ~IsDirty(buffer) /\ (HasCount => CacheLen <= top_n_count))
        => LET f == FillLoop(top_n, MergedView(buffer, store))
           IN /\ ~f.panic
              /\ f.cache = ScanAndMerge(top_n, buffer, store)

\* C21: an insert or delete that returns, and a pop_top_element that
\* returns an element, leave the instance dirty; a dirty instance becomes
\* clean only by a flush that returns Ok (a further insert or delete, the
\* delete of a key inserted since the last flush included, a failed flush, a
\* scan or a fill leave it dirty).
C21_DirtyUntilFlush ==
    [][/\ ((op' \in {"insert", "delete"} /\ ret'.kind \in {"Ok", "Some", "None"})
              \/ (op' = "pop_top_element" /\ ret'.kind = "Some"))
            => IsDirty(buffer')
       /\ (IsDirty(buffer) /\ ~IsDirty(buffer'))
            => (op' = "flush" /\ ret' = RetOk)]_vars

\* C21 witness: a key inserted since the last flush has been deleted again,
\* and its tombstone alone keeps the instance dirty.
C21_Witness ==
    /\ op = "delete" /\ ret.kind = "Some"
    /\ ~MapHas(store, TablePk(arg))
    /\ store # {}
    /\ Tombstones(buffer) = {TablePk(arg)}
    /\ Upserts(buffer) = {}
    /\ IsDirty(buffer)

\* C22: fill_in_cache and scan_and_merge leave the committed store, the
\* delta and total_count as they were, and scan_and_merge puts no key into
\* the cache that a tombstone of the delta hides.
C22_ScansChangeOnlyTheCache ==
    [][(op' \in {"fill_in_cache", "scan_and_merge"} /\ ret' = RetOk)
        => /\ store' = store
           /\ buffer' = buffer
           /\ IsDirty(buffer') = IsDirty(buffer)
           /\ total_count' = total_count
           /\ op' = "scan_and_merge"
                => \A e \in top_n' \ top_n :
                      /\ TablePk(e[1]) \notin Tombstones(buffer)
                      /\ e \in Live]_vars

\* C22 witness: a scan_and_merge has run to the end of a dirty table in which
\* a tombstone hides a committed row, and has not cached that row.
C22_Witness ==
    /\ op = "scan_and_merge" /\ ret = RetOk
    /\ ~HasCount
    /\ top_n # {}
    /\ \E e \in store : e[1] \in Tombstones(buffer) /\ ~MapHas(top_n, TableKey(e[1]))

\* C23 as stated: no insert fails its lookup of the bottom key
\* (bottom_element().unwrap() with total_count > |cache|), in any state
\* reached from a construction by public calls.
C23_InsertFindsBottom ==
    ~(op = "insert" /\ ret = RetPanic)

\* C24 as stated: total_count is the number of live keys of the merged view
\* after every call that returns, and no delete underflows it.
C24_TotalCountIsLiveCount ==
    /\ Alive => total_count = Cardinality(LiveKeys)
    /\ ~(op = "delete" /\ ret = RetPanic)

\* C25 as stated: the cache holds for each of its keys the row the merged
\* view holds for it, and fill_in_cache never fails its assertion that a
\* scanned row equals the row cached under the same key.
C25_CachedRowIsTableRow ==
    /\ Alive => \A e \in top_n : MapHas(Live, e[1]) => MapGet(Live, e[1]) = e[2]
    /\ ~(op = "fill_in_cache" /\ ret = RetPanic)

\* C26 as stated: pops that start from a non-empty cache drain the live
\* rows in the order of the selected end: each pop returns the live row
\* nearest to that end and removes it (so a pop that follows a pop returns a
\* key strictly farther from the end), and a pop with no live row left
\* returns None.
C26_PopsDrainInOrder ==
    [][(Alive /\ op' = "pop_top_element" /\ (top_n # {} \/ op = "pop_top_element"))
        => IF LiveKeys = {}
           THEN ret' = RetNone
           ELSE /\ ret' = RetSome(Extreme(LiveKeys), MapGet(Live, Extreme(LiveKeys)))
                /\ Decoded(MergedView(buffer', store')) = MapRemove(Live, ret'.key)
                /\ (op = "pop_top_element" /\ ret.kind = "Some")
                      => Better(ret.key, ret'.key)]_vars

----------------------------------------------------------------------------
\* PgProtocol: properties.

Range(s) == {s[i] : i \in 1 .. Len(s)}
IsSuffix(s, t) == Len(s) <= Len(t) /\ SubSeq(t, Len(t) - Len(s) + 1, Len(t)) = s
Count(m, s) == Cardinality({i \in 1 .. Len(s) : s[i] = m})

\* C27: the connection state only goes from Startup to Regular: it becomes
\* Regular only in a process() that read a Startup message and whose
\* process_startup_msg succeeded (an Ssl request or a failed startup leaves
\* it in Startup), it never goes back to Startup, a session is there in
\* every state in which it is Regular, and no Query or Execute aborts on a
\* missing session.
C27_StartupThenRegular ==
    [][/\ state = "Regular" => state' = "Regular"
       /\ state' = "Regular" => session' = "Some"
       /\ (state = "Startup" /\ state' = "Regular") =>
            /\ msg' = "Startup"
            /\ generated' = ProcessStartupMsg
       /\ (state = "Startup" /\ msg' = "Ssl") => state' = "Startup"
       /\ (state = "Startup" /\ msg' = "Startup" /\ session' = "None") =>
            state' = "Startup"
       /\ (msg' \in {"Query", "Execute"} /\ result' = Aborted) => session = "Some"
      ]_vars

\* a Query answered in the Regular state, reached through a failed startup,
\* an Ssl request and a startup that succeeded
C27_Witness ==
    /\ state = "Regular"
    /\ session = "Some"
    /\ msg = "Query"
    /\ result = OkFalse
    /\ "DataRow" \in Range(generated)

\* C28: a process() that handles Execute generates neither ReadyForQuery nor
\* RowDescription, whatever the statement gives (rows, a command, an empty
\* query, an error); of the messages of the extended-query flow only Sync
\* makes it generate ReadyForQuery.
C28_ExecuteIsBare ==
    /\ msg = "Execute" =>
        /\ "ReadyForQuery" \notin Range(generated)
        /\ "RowDescription" \notin Range(generated)
    /\ (msg \in ExtendedMessages /\ "ReadyForQuery" \in Range(generated)) =>
        msg = "Sync"

C28_Witness ==
    /\ msg = "Execute"
    /\ result = OkFalse
    /\ generated = <<"DataRow", "DataRow", "CommandComplete">>

\* the responses to one statement of the simple query protocol
StatementResponses ==
    {<<"EmptyQueryResponse">>, <<"CommandComplete">>, <<"ErrorResponse">>}
        \cup {<<"RowDescription">> \o Repeat(<<"DataRow">>, n) \o <<"CommandComplete">> :
                n \in 0 .. MaxRows}

\* C29: a process() that handles a simple Query and returns without an I/O
\* error has generated the response of the statement (EmptyQueryResponse, or
\* RowDescription, the DataRows and CommandComplete, or CommandComplete, or
\* ErrorResponse) and then ReadyForQuery, once, as the last message.
C29_QueryEndsReady ==
    (msg = "Query" /\ result # IoErr) =>
        /\ \E r \in StatementResponses : generated = r \o <<"ReadyForQuery">>
        /\ Count("ReadyForQuery", generated) = 1

C29_Witness ==
    /\ msg = "Query"
    /\ result = OkFalse
    /\ generated = <<"ErrorResponse", "ReadyForQuery">>

\* C30: when process() returns Ok, buf_out is empty and every backend message
\* generated in the call has been written to the stream, also when the read
\* failed with an error other than UnexpectedEof.
C30_OkMeansFlushed ==
    result \in {OkFalse, OkTrue} =>
        /\ buf_out = <<>>
        /\ IsSuffix(generated, stream)

\* C31: process() returns Ok(true) exactly when it returns Ok and a Terminate
\* message has been handled on the connection, in this call or an earlier
\* one: every other call that returns Ok returns Ok(false), CancelQuery and
\* the read error that is answered included; is_terminate is set only by
\* Terminate and, once set, stays set.
C31_TrueIffTerminated ==
    [][/\ is_terminate => is_terminate'
       /\ (~is_terminate /\ is_terminate') => msg' = "Terminate"
       /\ (msg' = "Terminate" /\ result' # Aborted) => is_terminate'
       /\ result' = OkTrue => is_terminate'
       /\ (~is_terminate /\ msg' # "Terminate" /\ result' \in {OkFalse, OkTrue}) =>
            result' = OkFalse
       /\ (is_terminate' /\ result' \in {OkFalse, OkTrue}) => result' = OkTrue
      ]_vars

\* a call after the one that handled Terminate still returns true
C31_Witness ==
    /\ is_terminate
    /\ msg = "Sync"
    /\ result = OkTrue
    /\ stream = <<"ReadyForQuery">>
\* the statement and the portal a name denotes: the empty name the unnamed one
HasStatement(name) == name = "" \/ MapHas(named_statements, name)
StatementAt(name) ==
    IF name = "" THEN unnamed_statement ELSE MapGet(named_statements, name)
HasPortal(name) == name = "" \/ MapHas(named_portals, name)
PortalAt(name) == IF name = "" THEN unnamed_portal ELSE MapGet(named_portals, name)

\* Parse(s, q) makes s denote q (replacing what s denoted) and changes nothing else
C32_Parse ==
    (msg' = "Parse" /\ result' # Aborted) =>
        LET s == detail'[1]
            q == detail'[2] IN
        /\ IF s = ""
           THEN unnamed_statement' = q /\ UNCHANGED named_statements
           ELSE /\ named_statements' = MapInsert(named_statements, s, q)
                /\ UNCHANGED unnamed_statement
        /\ UNCHANGED <<unnamed_portal, named_portals>>

\* Bind(p, s) makes portal p denote the query of statement s and changes nothing else
C32_Bind ==
    (msg' = "Bind" /\ result' # Aborted) =>
        LET p == detail'[1]
            s == detail'[2] IN
        /\ HasStatement(s)
        /\ IF p = ""
           THEN unnamed_portal' = StatementAt(s) /\ UNCHANGED named_portals
           ELSE /\ named_portals' = MapInsert(named_portals, p, StatementAt(s))
                /\ UNCHANGED unnamed_portal
        /\ UNCHANGED <<unnamed_statement, named_statements>>

\* Execute(p) of a stored portal runs the query p denotes, the unnamed portal
\* for the empty name
C32_Execute ==
    (msg' = "Execute" /\ detail'[1] # NotUtf8 /\ HasPortal(detail'[1])) =>
        /\ result' # Aborted
        /\ executed' \in {NoQuery, PortalAt(detail'[1])}
        /\ UNCHANGED stores

\* Close('S', s) removes named statement s only, Close('P', p) named portal p only
C32_Close ==
    (msg' = "Close" /\ result' # Aborted) =>
        LET kind == detail'[1]
            name == detail'[2] IN
        /\ named_statements' =
            IF kind = "S" THEN {e \in named_statements : e[1] # name}
            ELSE named_statements
        /\ named_portals' =
            IF kind = "P" THEN {e \in named_portals : e[1] # name} ELSE named_portals
        /\ UNCHANGED <<unnamed_statement, unnamed_portal>>

\* a Bind, Describe or Execute whose names are strings does not abort the handler
C32_NoAbort ==
    (/\ msg' \in {"Bind", "Describe", "Execute"}
     /\ \A i \in 1 .. Len(detail') : detail'[i] # NotUtf8) =>
        result' # Aborted

\* C32: the statement and portal store: Parse(s, q) stores q under s and
\* replaces what was there, Bind(p, s) stores under p the query of s,
\* Execute(p) runs the query stored under p, the empty name denoting the
\* unnamed statement or portal in each of them; Close('S', s) removes only
\* the named statement s and Close('P', p) only the named portal p; and a
\* Bind, Describe or Execute that names a statement or portal that is not
\* stored does not abort the connection handler.
C32_StatementAndPortalStore ==
    [][C32_Parse /\ C32_Bind /\ C32_Execute /\ C32_Close /\ C32_NoAbort]_vars
\* the conjuncts of predicate p that reference a column of S, in their order
RECURSIVE Referencing(_, _)
Referencing(p, S) ==
    IF p = <<>> THEN <<>>
    ELSE (IF \E j \in 1 .. Len(Head(p)) : Head(p)[j] \in S THEN <<Head(p)>> ELSE <<>>)
            \o Referencing(Tail(p), S)

\* C33: FilterAggRule::apply rewrites Filter(p) over Agg exactly when the Agg
\* has a group key and some conjunct of p references no aggregate-call
\* column, and returns None otherwise; the result is Filter(p_agg) over the
\* same Agg over Filter(p_push') over the input of the Agg, p_agg the
\* conjuncts of p that reference an aggregate-call column, p_push' the other
\* conjuncts with every reference to group-key column i replaced by
\* group_keys[i]; every conjunct of p is in exactly one of the two.
C33_FilterPushedPastAgg ==
    plan # Nothing =>
        LET IsFilterAgg == plan.node = "Filter" /\ plan.input.node = "Agg"
            agg == plan.input
            g == Len(agg.group_keys)
            agg_cols == g .. g + agg.agg_calls - 1
            p == plan.predicate
            p_agg == Referencing(p, agg_cols)
            NoAggConjunct(i) == \A j \in 1 .. Len(p[i]) : p[i][j] \notin agg_cols
        IN IF IsFilterAgg /\ g >= 1 /\ \E i \in 1 .. Len(p) : NoAggConjunct(i)
           THEN /\ applied_plan.node = "Filter"
                /\ applied_plan.predicate = p_agg
                /\ applied_plan.input.node = "Agg"
                /\ applied_plan.input.group_keys = agg.group_keys
                /\ applied_plan.input.agg_calls = agg.agg_calls
                /\ applied_plan.input.input.node = "Filter"
                /\ applied_plan.input.input.input = agg.input
                /\ LET pushed == applied_plan.input.input.predicate
                       kept == {i \in 1 .. Len(p) : NoAggConjunct(i)}
                   IN /\ Len(pushed) = Cardinality(kept)
                      /\ Len(pushed) + Len(p_agg) = Len(p)
                      /\ \E f \in [1 .. Len(pushed) -> kept] :
                            /\ \A a, b \in 1 .. Len(pushed) : a < b => f[a] < f[b]
                            /\ \A a \in 1 .. Len(pushed) :
                                /\ Len(pushed[a]) = Len(p[f[a]])
                                /\ \A j \in 1 .. Len(pushed[a]) :
                                    pushed[a][j] = agg.group_keys[p[f[a]][j] + 1]
           ELSE applied_plan = None

\* a rewrite with a conjunct on each side and a group key that is not input
\* column 0
C33_Witness ==
    /\ plan.node = "Filter"
    /\ applied_plan.node = "Filter"
    /\ plan.input.group_keys = <<1>>
    /\ plan.predicate = <<<<0, 1>>, <<0>>>>
    /\ applied_plan.predicate = <<<<0, 1>>>>
    /\ applied_plan.input.input.predicate = <<<<1>>>>
\* the value of a bound condition on a pair of rows
RECURSIVE Eval(_, _, _)
Eval(e, l, r) ==
    CASE e.node = "Literal" -> e.value
      [] e.node = "InputRef" -> IF e.side = "left" THEN l[e.column] ELSE r[e.column]
      [] e.node = "Eq" -> Eval(e.left, l, r) = Eval(e.right, l, r)

\* USING (c1, ..., cn) binds to a condition that is true of a pair of rows
\* exactly when every listed column is equal on both sides
C34_Using ==
    (join.constraint.kind = "Using" /\ join.left # NoName /\ join.right # NoName) =>
        /\ bound_join.node = "BoundJoin"
        /\ \A l \in Rows, r \in Rows :
            Eval(bound_join.cond, l, r) =
                (\A i \in 1 .. Len(join.constraint.columns) :
                    l[join.constraint.columns[i]] = r[join.constraint.columns[i]])

\* no constraint binds to the condition true, as an inner join for JOIN and
\* for CROSS JOIN; NATURAL is rejected with NotImplemented
C34_Others ==
    /\ (join.operator = "CrossJoin" \/ join.constraint.kind = "None") =>
        /\ bound_join.node = "BoundJoin"
        /\ bound_join.cond = LiteralBool(TRUE)
        /\ join.operator \in {"CrossJoin", "Inner"} => bound_join.join_type = "Inner"
    /\ (join.operator # "CrossJoin" /\ join.constraint.kind = "Natural") =>
        bound_join = BindErr("NotImplemented")

\* C34: a join with USING (c1, ..., cn), n >= 1, is bound with a condition
\* equivalent to the conjunction of left.ci = right.ci over all i; a join
\* without constraint and a CROSS JOIN are bound as an inner join with the
\* condition true; a NATURAL join is rejected with a NotImplemented error.
C34_UsingIsConjunction ==
    join # Nothing => (C34_Using /\ C34_Others)
====
